---- MODULE Spec2Model ----
(***************************************************************************)
(* The MILP planner of src/src/optimizer.py (class IDOEOptimizer) with its *)
(* configuration (src/src/config.py) and result model (src/src/models.py), *)
(* the command-line entry point src/src/main.py, and the configurable      *)
(* planner of src/streamlit_app/src/optimizer_wrapper.py.                  *)
(*                                                                         *)
(* Reals are represented as integers in units of 1e-4: mu_set 0.135 is     *)
(* 1350, temperature 31.0 is 310000, BIG_M = 1000 is 10000000.  Every row  *)
(* of the MILP is linear, so scaling both sides keeps its truth value.     *)
(*                                                                         *)
(* The values of the binary variables x[i][j][k] are kept as the set of    *)
(* triples <<i, j, k>> whose value is 1.  The objective is kept as its     *)
(* numerator: the code's weight (i / (J+1))^3 is Weight(i) / (J+1)^3.      *)
(***************************************************************************)
EXTENDS Integers, Sequences, FiniteSets, TLC

VARIABLES
    factor_values,   \* self.factor_values: sequence of <<mu_set, temperature>>
    num_stages,      \* self.num_stages
    pc,              \* position in optimize(): init, built, raised, solved, done
    x,               \* solver values of self.x: the triples <<i,j,k>> at 1
    x_value,         \* solver values of self.x that need not be 0 or 1
    status,          \* pulp.LpStatus[self.problem.status]
    result,          \* the OptimizationResult returned by optimize()
    earlier,         \* what a caller kept of the result of a first invocation
    args,            \* main(): the parsed command line
    exit_code,       \* main(): the value returned
    saved,           \* main(): the dictionary save_results gave to json.dump
    combinations,    \* IDOEOptimizerWrapper: self.combinations
    num_runs,        \* IDOEOptimizerWrapper: self.num_runs
    constraints,     \* IDOEOptimizerWrapper: self.constraints
    parameters,      \* ParameterManager: self.parameters
    returned,        \* ParameterManager: what the last call returned
    df,              \* ParameterManager: the DataFrame last given to it
    optimization_result,  \* app.py: st.session_state.optimization_result
    show_results,    \* app.py: st.session_state.show_results
    planned_for      \* history: the parameters the stored result was planned for

main_vars == <<args, exit_code, saved>>
wrapper_vars == <<combinations, num_runs, constraints>>
manager_vars == <<parameters, returned, df>>
app_vars == <<optimization_result, show_results, planned_for>>
solver_vars == <<x_value>>

vars == <<factor_values, num_stages, pc, x, status, result, earlier,
          main_vars, wrapper_vars, manager_vars, app_vars, solver_vars>>

----------------------------------------------------------------------------
(* Bounds of the model *)

\* largest number of combinations (rows of factor_values)
MaxJ == 4
\* instances with at most ExactJ combinations are searched exhaustively
ExactJ == 1
\* for larger instances the search covers every schedule whose objective
\* numerator is at most MaxCost
MaxCost == 27
\* instances longer than MaxVaried are prefixes of the default matrix
MaxVaried == 2

----------------------------------------------------------------------------
(* config.py *)

NUM_STAGES == 3
DELTA_F_MAX_MU == 300
DELTA_F_MAX_TEMP == 20000
DELTA_F_MIN_MU == 100
DELTA_F_MIN_TEMP == 10000
BIG_M == 10000000
BIG_L == 5000000

STAGE_WEIGHTS == [k \in 1..3 |-> 1]

\* FACTOR_VALUES, the default matrix (rows 1..9)
FACTOR_VALUES ==
    << <<1350, 310000>>, <<1350, 310000>>, <<1350, 310000>>,
       <<1600, 310000>>, <<1475, 330000>>, <<1100, 310000>>,
       <<1225, 290000>>, <<1475, 290000>>, <<1225, 330000>> >>

\* a variant that gives every id the target 1
targets_all_one(n) == [j \in (1..n) \cup {1, 2, 3} |-> 1]

\* get_repetition_targets: a dict with keys 1..n and, always, 1, 2 and 3
get_repetition_targets(n) ==
    [j \in (1..n) \cup {1, 2, 3} |-> IF j \in {1, 2, 3} THEN 1 ELSE 2]

----------------------------------------------------------------------------
(* IDOEOptimizer.__init__ *)

num_combinations == Len(factor_values)
num_factors == 2
num_experiments == num_combinations * num_stages

delta_f_max(l) == IF l = 1 THEN DELTA_F_MAX_MU ELSE DELTA_F_MAX_TEMP
delta_f_min(l) == IF l = 1 THEN DELTA_F_MIN_MU ELSE DELTA_F_MIN_TEMP

Experiments == 1..num_experiments
Combos == 1..num_combinations
Stages == 1..num_stages

\* the matrix and the bounds the constructor stores; the bounds are the
\* defaults of config.py
OptimizerInput ==
    [factor_values |-> factor_values,
     delta_f_max_mu |-> DELTA_F_MAX_MU, delta_f_max_temp |-> DELTA_F_MAX_TEMP,
     delta_f_min_mu |-> DELTA_F_MIN_MU, delta_f_min_temp |-> DELTA_F_MIN_TEMP]

----------------------------------------------------------------------------
(* pulp.lpSum and the value of a variable *)

RECURSIVE Sum(_, _)
Sum(f, S) ==
    IF S = {} THEN 0
    ELSE LET e == CHOOSE e \in S : TRUE IN f[e] + Sum(f, S \ {e})

\* x[i][j][k] under the assignment xs; a key outside the created variables
\* is a KeyError in the code and is never evaluated here (see BuildRaises)
Val(xs, i, j, k) == IF <<i, j, k>> \in xs THEN 1 ELSE 0

\* A linear expression sum_v c_v * v is evaluated over the variables at
\* value 1, the others contributing c_v * 0.  The variables x[i][.][k],
\* x[.][j][k], x[i][j][.] and x[.][j][.] at value 1:
OfStage(xs, i, k) == {t \in xs : t[1] = i /\ t[3] = k}
OfPosition(xs, j, k) == {t \in xs : t[2] = j /\ t[3] = k}
OfRunCombo(xs, i, j) == {t \in xs : t[1] = i /\ t[2] = j}
OfCombo(xs, j) == {t \in xs : t[2] = j}

\* sum_j factor_values[j-1, l-1] * x[i][j][k] of an optimizer holding inp
FactorSumOf(inp, xs, i, k, l) ==
    LET on == OfStage(xs, i, k)
    IN  Sum([t \in on |-> inp.factor_values[t[2]][l] * 1], on)

FactorSum(xs, i, k, l) == FactorSumOf(OptimizerInput, xs, i, k, l)

----------------------------------------------------------------------------
(* _add_objective_function: numerator of weights[i-1] = (i / (J+1))^3 *)

Weight(i) == i * i * i

\* a variant with the same weight for every experiment
Objective_unweighted(xs) == Cardinality(xs)

\* a variant for a problem whose objective was never added
Objective_none(xs) == 0

Objective(xs) == Sum([t \in xs |-> Weight(t[1]) * 1], xs)

----------------------------------------------------------------------------
(* The rows of the MILP, one definition per _add_constraint_cN.  A row     *)
(* family that loops over i is given per experiment i.                     *)

\* a variant of C1 with right-hand side 2
C1Rows_rhs2(xs, i) ==
    \A k \in Stages : Cardinality(OfStage(xs, i, k)) <= 2

\* C1: sum_j x[i][j][k] <= 1, for every k
C1Rows(xs, i) ==
    \A k \in Stages : Cardinality(OfStage(xs, i, k)) <= 1

\* a variant of C2 that sums over k instead of i: at most one stage of an
\* experiment holds j
C2Rows_over_k(xs) ==
    \A j \in Combos, i \in Experiments : Cardinality(OfRunCombo(xs, i, j)) <= 1

\* C2: sum_i x[i][j][k] <= 1, for every (j, k)
C2Rows(xs) ==
    \A j \in Combos, k \in Stages : Cardinality(OfPosition(xs, j, k)) <= 1

\* C3: sum_k x[i][j][k] <= 2, for every j
C3Rows(xs, i) ==
    \A j \in Combos : Cardinality(OfRunCombo(xs, i, j)) <= 2

\* a variant of C4 with right-hand side 3
C4Rows_rhs3(xs) == \A j \in Combos : Cardinality(OfCombo(xs, j)) <= 3

\* C4: sum_{i,k} x[i][j][k] <= 2, for every j
C4Rows(xs) == \A j \in Combos : Cardinality(OfCombo(xs, j)) <= 2

\* C5: sum_{i,k} x[i][j][k] >= 1, for every j
C5Rows(xs) == \A j \in Combos : Cardinality(OfCombo(xs, j)) >= 1

\* C6: sum_{i,k} STAGE_WEIGHTS[k] * x[i][j][k] >= repetition_targets[j]
C6Rows(xs) ==
    \A j \in Combos :
        LET on == OfCombo(xs, j)
        IN  Sum([t \in on |-> STAGE_WEIGHTS[t[3]] * 1], on)
                >= get_repetition_targets(num_combinations)[j]

\* a variant of C7 whose rows bind only between two assigned stages
C7RowsOf_between_assigned(inp, xs, i) ==
    \A k \in 1..(num_stages - 1) :
        (OfStage(xs, i, k) # {} /\ OfStage(xs, i, k + 1) # {}) =>
            LET mu == FactorSumOf(inp, xs, i, k, 1) - FactorSumOf(inp, xs, i, k + 1, 1)
                temp == FactorSumOf(inp, xs, i, k, 2) - FactorSumOf(inp, xs, i, k + 1, 2)
            IN  /\ mu <= inp.delta_f_max_mu
                /\ mu >= -inp.delta_f_max_mu
                /\ temp <= inp.delta_f_max_temp
                /\ temp >= -inp.delta_f_max_temp

\* a variant of C7 that bounds both columns by delta_f_max_mu
C7RowsOf_mu_bound_twice(inp, xs, i) ==
    \A k \in 1..(num_stages - 1), l \in 1..2 :
        LET d == FactorSumOf(inp, xs, i, k, l) - FactorSumOf(inp, xs, i, k + 1, l)
        IN  /\ d <= inp.delta_f_max_mu
            /\ d >= -inp.delta_f_max_mu

\* C7 of an optimizer holding inp: for k < num_stages, the mu_set rows
\*     -delta_f_max_mu <= FactorSum(k) - FactorSum(k+1) <= delta_f_max_mu
\* over column 1 and the temperature rows over column 2
C7RowsOf(inp, xs, i) ==
    \A k \in 1..(num_stages - 1) :
        LET mu == FactorSumOf(inp, xs, i, k, 1) - FactorSumOf(inp, xs, i, k + 1, 1)
            temp == FactorSumOf(inp, xs, i, k, 2) - FactorSumOf(inp, xs, i, k + 1, 2)
        IN  /\ mu <= inp.delta_f_max_mu
            /\ mu >= -inp.delta_f_max_mu
            /\ temp <= inp.delta_f_max_temp
            /\ temp >= -inp.delta_f_max_temp

C7Rows(xs, i) == C7RowsOf(OptimizerInput, xs, i)

\* C8 of an optimizer holding inp: the four Big-M rows of experiment i and
\* factor l, whose bound is dmin, under values z = z[i][l], q1 = q[1][i][l],
\* q2 = q[2][i][l] of the auxiliary binaries
C8RowsAtOf(inp, dmin, xs, i, l, z, q1, q2) ==
    LET diff1 == FactorSumOf(inp, xs, i, 1, l) - FactorSumOf(inp, xs, i, 2, l)
        diff2 == FactorSumOf(inp, xs, i, 2, l) - FactorSumOf(inp, xs, i, 3, l)
    IN  /\ diff1 + BIG_M * z + BIG_L * (q1 + q2) >= dmin
        /\ diff1 - BIG_M * z + BIG_L * (q1 + q2) >= dmin - BIG_M
        /\ diff2 + BIG_M * z - BIG_L * q1 + BIG_L * q2 >= dmin - BIG_L
        /\ diff2 - BIG_M * z - BIG_L * q1 + BIG_L * q2
               >= dmin - BIG_M - BIG_L

C8RowsAt(xs, i, l, z, q1, q2) ==
    C8RowsAtOf(OptimizerInput, delta_f_min(l), xs, i, l, z, q1, q2)

\* z and q occur in no other row and not in the objective: the C8 rows of
\* experiment i can be satisfied iff some values of z[i][l], q[.][i][l] exist.
\* The loop is over (1, delta_f_min_mu) and (2, delta_f_min_temp).
C8RowsOf(inp, xs, i) ==
    \A l \in 1..2 :
        \E z \in 0..1, q1 \in 0..1, q2 \in 0..1 :
            C8RowsAtOf(inp, IF l = 1 THEN inp.delta_f_min_mu
                                     ELSE inp.delta_f_min_temp,
                       xs, i, l, z, q1, q2)

C8Rows(xs, i) == C8RowsOf(OptimizerInput, xs, i)

\* the rows that mention the variables of experiment i only
RunRowsOf(inp, xs, i) ==
    /\ C1Rows(xs, i)
    /\ C3Rows(xs, i)
    /\ C7RowsOf(inp, xs, i)
    /\ C8RowsOf(inp, xs, i)

RunRows(xs, i) == RunRowsOf(OptimizerInput, xs, i)

\* _build_problem: every row of the problem of an optimizer holding inp
FeasibleOf(inp, xs) ==
    /\ C5Rows(xs)
    /\ C6Rows(xs)
    /\ C4Rows(xs)
    /\ C2Rows(xs)
    /\ \A i \in Experiments : RunRowsOf(inp, xs, i)

Feasible(xs) == FeasibleOf(OptimizerInput, xs)

\* _build_problem raises KeyError unless num_stages = 3: C6 reads
\* STAGE_WEIGHTS[k] for k up to num_stages, C8 reads x[i][j][3] and q[2][i][l]
BuildRaises ==
    \/ \E k \in Stages : k \notin DOMAIN STAGE_WEIGHTS
    \/ 3 \notin Stages
    \/ 2 \notin 1..(num_stages - 1)

----------------------------------------------------------------------------
(* self.problem.solve(PULP_CBC_CMD): the engine searches the binary         *)
(* assignments, experiment by experiment, and returns one of least          *)
(* objective.  Rows of one experiment are decided when that experiment is   *)
(* assigned; the <= rows over all experiments (C2, C4) can only get worse   *)
(* as variables are set to 1 and prune the search; the >= rows (C5, C6) are *)
(* decided at the leaves.  A branch whose objective exceeds the budget is   *)
(* cut.  An experiment left empty adds nothing to the <= rows, which held   *)
(* before it.                                                               *)

\* the assignments of experiment i alone that satisfy its own rows; the
\* combinations a stage may hold together are decided first, by the C1 rows
\* of a run that holds them at that stage only
RunContents(i) ==
    LET together == {S \in SUBSET Combos :
                        \A k \in Stages : C1Rows({<<i, j, k>> : j \in S}, i)}
        runOf(c) == {<<i, p[1], p[2]>> :
                        p \in {p \in Combos \X Stages : p[1] \in c[p[2]]}}
    IN  {r \in {runOf(c) : c \in [Stages -> together]} : RunRows(r, i)}

\* contents is the set of pairs <<i, RunContents(i)>>
ContentsOf(contents, i) == (CHOOSE p \in contents : p[1] = i)[2]

RECURSIVE Search(_, _, _, _)
Search(i, acc, budget, contents) ==
    IF i > num_experiments THEN {acc}
    ELSE UNION { Search(i + 1, s, budget - Weight(i) * Cardinality(s \ acc),
                        contents) :
                 s \in {acc \cup r : r \in
                           {r \in ContentsOf(contents, i) :
                               /\ Weight(i) * Cardinality(r) <= budget
                               /\ \/ r = {}
                                  \/ /\ C2Rows(acc \cup r)
                                     /\ C4Rows(acc \cup r)}} }

\* the largest objective any assignment can have
TotalCost ==
    Sum([i \in Experiments |-> Weight(i) * num_combinations * num_stages],
        Experiments)

Exhaustive == num_combinations <= ExactJ

SearchBudget == IF Exhaustive THEN TotalCost ELSE MaxCost

\* the feasible assignments within the budget
FeasibleSet ==
    UNION { {s \in Search(1, {}, SearchBudget, contents) :
                C5Rows(s) /\ C6Rows(s)} :
            contents \in
              { {<<i, IF Weight(i) > SearchBudget
                      THEN {r \in {{}} : RunRows(r, i)}
                      ELSE RunContents(i)>> : i \in Experiments} } }

Least(S) == CHOOSE c \in S : \A d \in S : c <= d

\* the assignments the engine may return with status Optimal
OptimalSet(feas) ==
    UNION { {s \in feas : Objective(s) = best} :
            best \in {Least({Objective(s) : s \in feas})} }

\* values the engine leaves in x when it proves infeasibility: any
LeftoverSet == SUBSET ({1} \X Combos \X Stages)

----------------------------------------------------------------------------
(* _extract_results *)

\* a variant whose inner loop is range(1, num_combinations): the last
\* combination is never read
StageList_short_range(xs, i) ==
    LET n == num_stages * num_combinations
        kOf(m) == ((m - 1) \div num_combinations) + 1
        jOf(m) == ((m - 1) % num_combinations) + 1
        all == [m \in 1..n |->
                   [stage |-> kOf(m), combination |-> jOf(m),
                    mu_set |-> factor_values[jOf(m)][1],
                    temperature |-> factor_values[jOf(m)][2]]]
        keep(s) == /\ s.combination < num_combinations
                   /\ Val(xs, i, s.combination, s.stage) = 1
    IN  SelectSeq(all, keep)

\* the loop "for k ... for j ... if value(x[i][j][k]) == 1: stages.append"
StageList(xs, i) ==
    LET n == num_stages * num_combinations
        kOf(m) == ((m - 1) \div num_combinations) + 1
        jOf(m) == ((m - 1) % num_combinations) + 1
        all == [m \in 1..n |->
                   [stage |-> kOf(m), combination |-> jOf(m),
                    mu_set |-> factor_values[jOf(m)][1],
                    temperature |-> factor_values[jOf(m)][2]]]
        keep(s) == Val(xs, i, s.combination, s.stage) = 1
    IN  SelectSeq(all, keep)

ExperimentList(xs) ==
    [i \in Experiments |-> [experiment_id |-> i, stages |-> StageList(xs, i)]]

\* Experiment.is_empty
is_empty(exp) == Len(exp.stages) = 0

\* a variant that counts at every iteration of the loops, not at every append
CountAppends_every_iteration(xs) ==
    Cardinality(Experiments \X Combos \X Stages)

\* num_stages_used += 1 in the body of the "if" of the loops over i, k, j
CountAppends(xs) ==
    Cardinality({t \in Experiments \X Combos \X Stages :
                    Val(xs, t[1], t[2], t[3]) = 1})

ExtractedResult(xs, st) ==
    LET experiments == ExperimentList(xs)
        non_empty_experiments ==
            {i \in DOMAIN experiments : ~is_empty(experiments[i])}
    IN  [status |-> st,
         experiments |-> experiments,
         objective_value |-> Objective(xs),
         num_experiments_used |-> Cardinality(non_empty_experiments),
         num_stages_used |-> CountAppends(xs)]

NoResult == [status |-> "none"]

\* a variant of to_dict that leaves out the experiments without stages
to_dict_without_empty(res) ==
    [status |-> res.status,
     objective_value |-> res.objective_value,
     num_experiments_used |-> res.num_experiments_used,
     num_stages_used |-> res.num_stages_used,
     experiments |-> SelectSeq(res.experiments, LAMBDA exp : ~is_empty(exp))]

\* OptimizationResult.to_dict
to_dict(res) ==
    [status |-> res.status,
     objective_value |-> res.objective_value,
     num_experiments_used |-> res.num_experiments_used,
     num_stages_used |-> res.num_stages_used,
     experiments |->
         [n \in DOMAIN res.experiments |->
             [experiment_id |-> res.experiments[n].experiment_id,
              stages |->
                  [m \in DOMAIN res.experiments[n].stages |->
                      [stage |-> res.experiments[n].stages[m].stage,
                       combination |-> res.experiments[n].stages[m].combination,
                       mu_set |-> res.experiments[n].stages[m].mu_set,
                       temperature |-> res.experiments[n].stages[m].temperature]]]]]

\* main() has not been entered, or has not returned
NoArgs == [output |-> "None", verbose |-> FALSE]
NoExit == "none"

\* An Optional[Dict] is kept as a function on its keys.  None is kept as
\* the dict without keys: every use of these fields ("is None", truth
\* value, "in", get) treats the two alike.
NoDict == [n \in {} |-> 0]

\* Constraints(): the defaults of the dataclass
DefaultConstraints ==
    [c1_enabled |-> TRUE, c2_enabled |-> TRUE,
     c3_enabled |-> TRUE, c3_max_per_run |-> 2,
     c4_enabled |-> TRUE, c4_max_global |-> 2,
     c5_enabled |-> TRUE,
     c6_enabled |-> TRUE, c6_target_stages |-> 2, c6_stage_weights |-> NoDict,
     c7_enabled |-> TRUE, c7_max_changes |-> NoDict,
     c8_enabled |-> TRUE, c8_min_changes |-> NoDict]

----------------------------------------------------------------------------
(* The inputs *)

\* rows a caller may pass: two rows of the default matrix, (0.135, 31.0) and
\* (0.16, 31.0), and two rows within delta_f_max of zero, (0.02, 1.5) and
\* (0.02, -1.5)
VariedRows ==
    { <<1350, 310000>>, <<1600, 310000>>, <<200, 15000>>, <<200, -15000>> }

Min(a, b) == IF a <= b THEN a ELSE b

Instances ==
    UNION { [1..n -> VariedRows] : n \in 1..Min(MaxVaried, MaxJ) }
    \cup { SubSeq(FACTOR_VALUES, 1, n) : n \in 1..Min(MaxJ, Len(FACTOR_VALUES)) }

\* the default and its two neighbours
NumStagesChoices == {NUM_STAGES - 1, NUM_STAGES, NUM_STAGES + 1}

----------------------------------------------------------------------------
(* optimize() *)

\* a constructed IDOEOptimizer, before optimize()
Constructed ==
    /\ num_stages \in NumStagesChoices
    /\ pc = "init"
    /\ x = {}
    /\ status = "Not Solved"
    /\ result = NoResult
    /\ earlier = NoResult

\* every solver value is 0 or 1 and is kept in x
NoValues == <<>>

\* no ParameterManager is in use
NoReturn == <<>>
NoManager ==
    /\ parameters = <<>>
    /\ returned = NoReturn
    /\ df = <<>>

\* the Streamlit script has not run
NoApp ==
    /\ optimization_result = NoResult
    /\ show_results = FALSE
    /\ planned_for = <<>>

\* no wrapper is in use
NoWrapper ==
    /\ combinations = <<>>
    /\ num_runs = 0
    /\ constraints = DefaultConstraints

Init ==
    /\ x_value = NoValues
    /\ NoManager
    /\ NoApp
    /\ factor_values \in Instances
    /\ Constructed
    /\ args = NoArgs
    /\ exit_code = NoExit
    /\ saved = NoDict
    /\ NoWrapper

BuildProblem ==
    /\ pc = "init"
    /\ pc' = IF BuildRaises THEN "raised" ELSE "built"
    /\ UNCHANGED <<factor_values, num_stages, x, status, result, earlier,
                   main_vars, wrapper_vars, manager_vars, app_vars, solver_vars>>

\* The outcome is modelled for the inputs the search decides: a schedule
\* within the budget exists, or the search was exhaustive.
Solve ==
    /\ pc = "built"
    /\ \E feas \in {FeasibleSet} :
           /\ Exhaustive \/ feas # {}
           /\ IF feas # {}
              THEN /\ x' \in OptimalSet(feas)
                   /\ status' = "Optimal"
              ELSE /\ x' \in LeftoverSet
                   /\ status' = "Infeasible"
    /\ pc' = "solved"
    /\ UNCHANGED <<factor_values, num_stages, result, earlier,
                   main_vars, wrapper_vars, manager_vars, app_vars, solver_vars>>

ExtractResults ==
    /\ pc = "solved"
    /\ result' = ExtractedResult(x, status)
    /\ pc' = "done"
    /\ UNCHANGED <<factor_values, num_stages, x, status, earlier,
                   main_vars, wrapper_vars, manager_vars, app_vars, solver_vars>>

Next == BuildProblem \/ Solve \/ ExtractResults

Spec == Init /\ [][Next]_vars

----------------------------------------------------------------------------
(* optimize() invoked a second time on the same input *)

\* the fields of a result that a caller compares between invocations
Kept(res) ==
    [status |-> res.status,
     num_experiments_used |-> res.num_experiments_used,
     num_stages_used |-> res.num_stages_used,
     objective_value |-> res.objective_value]

\* optimize() again: _build_problem makes a new problem and new variables
OptimizeAgain ==
    /\ pc = "done"
    /\ earlier = NoResult
    /\ earlier' = Kept(result)
    /\ pc' = "init"
    /\ x' = {}
    /\ status' = "Not Solved"
    /\ result' = NoResult
    /\ UNCHANGED <<factor_values, num_stages, main_vars, wrapper_vars, manager_vars, app_vars, solver_vars>>

TwiceNext == BuildProblem \/ Solve \/ ExtractResults \/ OptimizeAgain

TwiceSpec == Init /\ [][TwiceNext]_vars

----------------------------------------------------------------------------
(* main(): parse_arguments, IDOEOptimizer().optimize(), save_results and   *)
(* the exit code.  IDOEOptimizer() takes its matrix and its number of      *)
(* stages from config.py; they range over the inputs below.                *)

ConfigChoices ==
    { SubSeq(FACTOR_VALUES, 1, n) : n \in 1..Min(MaxJ, Len(FACTOR_VALUES)) }
    \cup [1..1 -> VariedRows]

\* --output given or not, --verbose given or not
ArgsChoices == [output : {"None", "results.json"}, verbose : BOOLEAN]

MainInit ==
    /\ x_value = NoValues
    /\ NoManager
    /\ NoApp
    /\ factor_values \in ConfigChoices
    /\ Constructed
    /\ args \in ArgsChoices
    /\ exit_code = NoExit
    /\ saved = NoDict
    /\ NoWrapper

\* a variant that returns 0 whatever the status is
ExitCodeFor_always_zero(res) == 0

\* "if result.status != "Optimal": return 1" and "return 0"
ExitCodeFor(res) == IF res.status # "Optimal" THEN 1 ELSE 0

\* after optimize() returned: print, save_results when --output is given
\* (writing the file may raise, which the except clause turns into 1), then
\* the status test
MainReturn ==
    /\ pc = "done"
    /\ exit_code = NoExit
    /\ \E save_raises \in IF args.output # "None" THEN BOOLEAN ELSE {FALSE} :
           IF save_raises
           THEN /\ pc' = "exited_except"
                /\ exit_code' = 1
                /\ UNCHANGED saved
           ELSE /\ pc' = "exited"
                /\ exit_code' = ExitCodeFor(result)
                /\ saved' = IF args.output # "None" THEN to_dict(result)
                                                     ELSE saved
    /\ UNCHANGED <<factor_values, num_stages, x, status, result, earlier,
                   args, wrapper_vars, manager_vars, app_vars, solver_vars>>

\* an exception raised inside optimize(): except Exception, return 1
MainExcept ==
    /\ pc = "raised"
    /\ exit_code = NoExit
    /\ pc' = "exited_except"
    /\ exit_code' = 1
    /\ UNCHANGED <<factor_values, num_stages, x, status, result, earlier,
                   args, saved, wrapper_vars, manager_vars, app_vars, solver_vars>>

MainNext ==
    BuildProblem \/ Solve \/ ExtractResults \/ MainReturn \/ MainExcept

MainSpec == MainInit /\ [][MainNext]_vars

----------------------------------------------------------------------------
(* IDOEOptimizerWrapper (streamlit_app/src/optimizer_wrapper.py).  Runs,   *)
(* combinations and stages are numbered from 0, as in the code.  x is the  *)
(* set of triples <<i, j, k>> at value 1; the objective is kept as its     *)
(* numerator: weights[i] = (i + 1) / (num_runs + 1)^2.                     *)

\* largest number of combinations given to the wrapper
MaxCombos == 2

\* BIG_M and BIG_L of _add_constraint_c8, in units of 1e-4
Wrapper_BIG_M == 10000000
Wrapper_BIG_L == 5000000

parameter_names == <<"mu_set", "temperature">>

n_combos == Len(combinations)
n_params == IF Len(combinations) > 0 THEN Len(combinations[1]) ELSE 0

Runs == 0..(num_runs - 1)
WrapperCombos == 0..(n_combos - 1)
WrapperStages == 0..(num_stages - 1)

\* self.combinations[j, p_idx]
Combination(j, p_idx) == combinations[j + 1][p_idx + 1]

\* the variables at value 1 of a sum over j, over i, over k, over (i, k)
AtStage(xs, i, k) == {t \in xs : t[1] = i /\ t[3] = k}
AtPosition(xs, j, k) == {t \in xs : t[2] = j /\ t[3] = k}
InRun(xs, i, j) == {t \in xs : t[1] = i /\ t[2] = j}
Uses(xs, j) == {t \in xs : t[2] = j}

\* a variant with the same weight for every run
WrapperObjective_unweighted(xs) == Cardinality(xs)

\* _add_objective
WrapperObjective(xs) == Sum([t \in xs |-> (t[1] + 1) * 1], xs)

\* the rows _add_constraint_c1 adds: no flag is read
WrapperC1(xs) ==
    \A i \in Runs, k \in WrapperStages : Cardinality(AtStage(xs, i, k)) <= 1

\* the rows of C2 to C8, as the loops state them
RowsC2(xs) ==
    \A j \in WrapperCombos, k \in WrapperStages :
        Cardinality(AtPosition(xs, j, k)) <= 1

RowsC3(xs) ==
    \A i \in Runs, j \in WrapperCombos :
        Cardinality(InRun(xs, i, j)) <= constraints.c3_max_per_run

RowsC4(xs) ==
    \A j \in WrapperCombos : Cardinality(Uses(xs, j)) <= constraints.c4_max_global

RowsC5(xs) == \A j \in WrapperCombos : Cardinality(Uses(xs, j)) >= 1

\* stage_weights.get(k, 1.0)
StageWeight(k) ==
    IF k \in DOMAIN constraints.c6_stage_weights
    THEN constraints.c6_stage_weights[k] ELSE 1

RowsC6(xs) ==
    \A j \in WrapperCombos :
        LET on == Uses(xs, j)
        IN  Sum([t \in on |-> StageWeight(t[3]) * 1], on)
                >= constraints.c6_target_stages

\* diff of parameter p_idx between stage k and stage k + 1 of run i
StepDiff(xs, i, k, p_idx) ==
    LET here == AtStage(xs, i, k)
        next == AtStage(xs, i, k + 1)
    IN  Sum([t \in here |-> Combination(t[2], p_idx) * 1], here)
          - Sum([t \in next |-> Combination(t[2], p_idx) * 1], next)

\* the parameters a dict of changes names
Named(changes) ==
    {p_idx \in 0..(Len(parameter_names) - 1) :
        parameter_names[p_idx + 1] \in DOMAIN changes}

RowsC7(xs) ==
    \A i \in Runs, k \in 0..(num_stages - 2) :
        \A p_idx \in Named(constraints.c7_max_changes) :
            LET max_change == constraints.c7_max_changes[parameter_names[p_idx + 1]]
                diff == StepDiff(xs, i, k, p_idx)
            IN  diff <= max_change /\ diff >= -max_change

\* z[i][p_idx] and the sum of q[kt][i][p_idx] over kt occur in the rows of
\* (i, p_idx) only: the rows can be satisfied iff values for them exist
RowsC8(xs) ==
    \A i \in Runs : \A p_idx \in Named(constraints.c8_min_changes) :
        \E z \in 0..1, qsum \in 0..(num_stages - 1) :
            \A k \in 0..(num_stages - 2) :
                LET min_change ==
                        constraints.c8_min_changes[parameter_names[p_idx + 1]]
                    diff == StepDiff(xs, i, k, p_idx)
                IN  /\ diff + Wrapper_BIG_M * z + Wrapper_BIG_L * qsum
                           >= min_change
                    /\ diff - Wrapper_BIG_M * z + Wrapper_BIG_L * qsum
                           >= min_change - Wrapper_BIG_M

\* a variant of _add_constraint_c2 that adds its rows whatever the flag is
WrapperC2_flag_ignored(xs) == RowsC2(xs)

\* _add_constraint_c2 .. _add_constraint_c8: "if not enabled: return", then
\* the rows; c7 and c8 also return when their dict is None
WrapperC2(xs) == constraints.c2_enabled => RowsC2(xs)
WrapperC3(xs) == constraints.c3_enabled => RowsC3(xs)
WrapperC4(xs) == constraints.c4_enabled => RowsC4(xs)
WrapperC5(xs) == constraints.c5_enabled => RowsC5(xs)
WrapperC6(xs) == constraints.c6_enabled => RowsC6(xs)
WrapperC7(xs) ==
    (constraints.c7_enabled /\ constraints.c7_max_changes # NoDict)
        => RowsC7(xs)
WrapperC8(xs) ==
    (constraints.c8_enabled /\ constraints.c8_min_changes # NoDict)
        => RowsC8(xs)

\* _build_problem: every row of the problem
WrapperFeasible(xs) ==
    /\ WrapperC1(xs)
    /\ WrapperC5(xs)
    /\ WrapperC6(xs)
    /\ WrapperC4(xs)
    /\ WrapperC2(xs)
    /\ WrapperC3(xs)
    /\ WrapperC7(xs)
    /\ WrapperC8(xs)

\* self.problem.solve(solver): the engine searches the assignments with at
\* most one combination per slot (any other breaks a C1 row)
WrapperCandidates ==
    {{<<s[1], c[s] - 1, s[2]>> : s \in {s \in Runs \X WrapperStages : c[s] # 0}} :
        c \in [Runs \X WrapperStages -> 0..n_combos]}

WrapperFeasibleSet == {xs \in WrapperCandidates : WrapperFeasible(xs)}

WrapperOptimalSet(feas) ==
    UNION { {xs \in feas : WrapperObjective(xs) = best} :
            best \in {Least({WrapperObjective(xs) : xs \in feas})} }

\* values the engine leaves in x when it returns no solution: any
WrapperLeftoverSet == SUBSET ({0} \X WrapperCombos \X {0})

\* _extract_assignments: per run, the first combination at value 1 of each
\* stage, in stage order; only non-empty runs are kept
RunAssignments(xs, i) ==
    LET first(k) == CHOOSE j \in WrapperCombos :
                        /\ <<i, j, k>> \in xs
                        /\ \A j2 \in WrapperCombos : <<i, j2, k>> \in xs => j <= j2
        all == [m \in 1..num_stages |-> m - 1]
        used(k) == AtStage(xs, i, k) # {}
        kept == SelectSeq(all, used)
    IN  [m \in 1..Len(kept) |-> first(kept[m])]

extract_assignments(xs) ==
    [i \in {i \in Runs : RunAssignments(xs, i) # <<>>} |-> RunAssignments(xs, i)]

\* a variant without the two closing hints
generate_infeasibility_hints_no_closing ==
    (IF constraints.c5_enabled /\ n_combos > num_runs * num_stages
        THEN <<"slots">> ELSE <<>>)
    \o (IF constraints.c2_enabled /\ n_combos > num_runs
        THEN <<"C2">> ELSE <<>>)
    \o (IF constraints.c7_enabled /\ constraints.c7_max_changes # NoDict
        THEN <<"C7">> ELSE <<>>)
    \o (IF constraints.c8_enabled /\ constraints.c8_min_changes # NoDict
        THEN <<"C8">> ELSE <<>>)
    \o (IF constraints.c6_enabled /\ constraints.c6_target_stages > 1
        THEN <<"C6">> ELSE <<>>)
    \o (IF constraints.c4_enabled /\ constraints.c4_max_global < 2
        THEN <<"C4">> ELSE <<>>)

\* _generate_infeasibility_hints: each hint is kept as a short tag
generate_infeasibility_hints ==
    (IF constraints.c5_enabled /\ n_combos > num_runs * num_stages
        THEN <<"slots">> ELSE <<>>)
    \o (IF constraints.c2_enabled /\ n_combos > num_runs
        THEN <<"C2">> ELSE <<>>)
    \o (IF constraints.c7_enabled /\ constraints.c7_max_changes # NoDict
        THEN <<"C7">> ELSE <<>>)
    \o (IF constraints.c8_enabled /\ constraints.c8_min_changes # NoDict
        THEN <<"C8">> ELSE <<>>)
    \o (IF constraints.c6_enabled /\ constraints.c6_target_stages > 1
        THEN <<"C6">> ELSE <<>>)
    \o (IF constraints.c4_enabled /\ constraints.c4_max_global < 2
        THEN <<"C4">> ELSE <<>>)
    \o <<"more runs", "more stages">>

\* a variant that extracts the assignments whatever the status is
WrapperResult_always_extracts(xs, st) ==
    LET assignments == extract_assignments(xs)
    IN  [status |-> st,
         feasible |-> st \in {"Optimal", "Feasible"},
         runs_used |-> Cardinality(DOMAIN assignments),
         total_stages |-> Sum([i \in DOMAIN assignments |-> Len(assignments[i])],
                              DOMAIN assignments),
         objective_value |-> WrapperObjective(xs),
         assignments |-> assignments,
         infeasibility_hints |-> generate_infeasibility_hints]

\* optimize(), after the solve: the two branches on "feasible"
WrapperResult(xs, st) ==
    LET feasible == st \in {"Optimal", "Feasible"}
        assignments == extract_assignments(xs)
    IN  IF feasible
        THEN [status |-> st,
              feasible |-> feasible,
              runs_used |-> Cardinality(DOMAIN assignments),
              total_stages |->
                  Sum([i \in DOMAIN assignments |-> Len(assignments[i])],
                      DOMAIN assignments),
              objective_value |-> WrapperObjective(xs),
              assignments |-> assignments,
              infeasibility_hints |-> <<>>]
        ELSE [status |-> st,
              feasible |-> feasible,
              runs_used |-> 0,
              total_stages |-> 0,
              objective_value |-> 0,
              assignments |-> <<>>,
              infeasibility_hints |-> generate_infeasibility_hints]

\* the inputs of the wrapper: the first rows of a matrix whose rows are
\* (0.02, 1.5), (0.02, -1.5), (0.04, 0.0) in turn
WrapperMatrix ==
    << <<200, 15000>>, <<200, -15000>>, <<400, 0>>,
       <<200, 15000>>, <<200, -15000>>, <<400, 0>> >>

WrapperInstances ==
    { SubSeq(WrapperMatrix, 1, n) : n \in 1..Min(MaxCombos, Len(WrapperMatrix)) }

WrapperRunsChoices == 1..2
WrapperStagesChoices == 1..2

\* the dicts a caller passes for c7_max_changes and c8_min_changes
MaxChanges == [mu_set |-> DELTA_F_MAX_MU, temperature |-> DELTA_F_MAX_TEMP]
MinChanges == [mu_set |-> DELTA_F_MIN_MU, temperature |-> DELTA_F_MIN_TEMP]

\* every choice of the eight flags; the numbers are the defaults; the two
\* dicts are both None or both given
ConstraintsChoices ==
    { [DefaultConstraints EXCEPT
          !.c1_enabled = f[1], !.c2_enabled = f[2], !.c3_enabled = f[3],
          !.c4_enabled = f[4], !.c5_enabled = f[5], !.c6_enabled = f[6],
          !.c7_enabled = f[7], !.c8_enabled = f[8],
          !.c7_max_changes = d[1], !.c8_min_changes = d[2]] :
        f \in [1..8 -> BOOLEAN],
        d \in {<<NoDict, NoDict>>, <<MaxChanges, MinChanges>>} }

WrapperInit ==
    /\ x_value = NoValues
    /\ NoManager
    /\ NoApp
    /\ combinations \in WrapperInstances
    /\ num_runs \in WrapperRunsChoices
    /\ num_stages \in WrapperStagesChoices
    /\ constraints \in ConstraintsChoices
    /\ pc = "wrapper_init"
    /\ x = {}
    /\ status = "Not Solved"
    /\ result = NoResult
    /\ earlier = NoResult
    /\ factor_values = <<>>
    /\ args = NoArgs
    /\ exit_code = NoExit
    /\ saved = NoDict

WrapperBuildProblem ==
    /\ pc = "wrapper_init"
    /\ pc' = "wrapper_built"
    /\ UNCHANGED <<factor_values, num_stages, x, status, result, earlier,
                   main_vars, wrapper_vars, manager_vars, app_vars, solver_vars>>

\* solve with timeLimit: a least-objective assignment and Optimal, or a
\* proof of infeasibility, or the time limit without a solution
WrapperSolve ==
    /\ pc = "wrapper_built"
    /\ \E feas \in {WrapperFeasibleSet} :
           \/ /\ feas # {}
              /\ x' \in WrapperOptimalSet(feas)
              /\ status' = "Optimal"
           \/ /\ feas = {}
              /\ x' \in WrapperLeftoverSet
              /\ status' = "Infeasible"
           \/ /\ x' \in WrapperLeftoverSet
              /\ status' = "Not Solved"
    /\ pc' = "wrapper_solved"
    /\ UNCHANGED <<factor_values, num_stages, result, earlier,
                   main_vars, wrapper_vars, manager_vars, app_vars, solver_vars>>

WrapperReturn ==
    /\ pc = "wrapper_solved"
    /\ result' = WrapperResult(x, status)
    /\ pc' = "wrapper_done"
    /\ UNCHANGED <<factor_values, num_stages, x, status, earlier,
                   main_vars, wrapper_vars, manager_vars, app_vars, solver_vars>>

WrapperNext == WrapperBuildProblem \/ WrapperSolve \/ WrapperReturn

WrapperSpec == WrapperInit /\ [][WrapperNext]_vars

----------------------------------------------------------------------------
(* Reading a returned OptimizationResult *)

Returned == pc = "done"
ReturnedOptimal == pc = "done" /\ result.status = "Optimal"

\* the stages list of experiment i of the result
StagesOf(i) == result.experiments[i].stages

\* the (run, stage) slots of the result holding combination j
SlotsHolding(j) ==
    {p \in UNION {{<<i, m>> : m \in DOMAIN StagesOf(i)} :
                      i \in DOMAIN result.experiments} :
        StagesOf(p[1])[p[2]].combination = j}

NonEmptyRuns == {i \in DOMAIN result.experiments : Len(StagesOf(i)) > 0}

Abs(a) == IF a >= 0 THEN a ELSE -a

\* two rows of the input are identical
HasDuplicateRows ==
    \E j1 \in Combos, j2 \in Combos :
        j1 # j2 /\ factor_values[j1] = factor_values[j2]

----------------------------------------------------------------------------
(* C1: in every schedule returned with status Optimal, every combination  *)
(* id 1..J appears in at least one (run, stage) slot; ids whose rows are  *)
(* identical are distinct and each appears at least once.                 *)

C1_EveryCombinationCovered ==
    ReturnedOptimal => \A j \in Combos : SlotsHolding(j) # {}

\* an Optimal schedule of an input with identical rows, using several ids
C1_Witness ==
    /\ ReturnedOptimal
    /\ HasDuplicateRows
    /\ num_combinations >= 2
    /\ \A j \in Combos : SlotsHolding(j) # {}

----------------------------------------------------------------------------
(* C2: in every schedule returned with status Optimal, no experiment's    *)
(* stages list contains the same stage number twice.                      *)

C2_OneAssignmentPerStage ==
    ReturnedOptimal =>
        \A i \in DOMAIN result.experiments :
            \A m1 \in DOMAIN StagesOf(i), m2 \in DOMAIN StagesOf(i) :
                m1 # m2 => StagesOf(i)[m1].stage # StagesOf(i)[m2].stage

\* an Optimal schedule with a run holding an assignment at every stage
C2_Witness ==
    /\ ReturnedOptimal
    /\ \E i \in DOMAIN result.experiments :
           {StagesOf(i)[m].stage : m \in DOMAIN StagesOf(i)} = Stages

----------------------------------------------------------------------------
(* C3: in every Optimal schedule, for every run and every two assignments *)
(* adjacent in the run's stage-ordered list of assigned stages, each      *)
(* parameter differs by at most its delta_f_max, whether or not an        *)
(* unassigned stage lies between the two.                                 *)

C3_AdjacentAssignedWithinMax ==
    ReturnedOptimal =>
        \A i \in DOMAIN result.experiments :
            \A m \in 1..(Len(StagesOf(i)) - 1) :
                /\ Abs(StagesOf(i)[m].mu_set - StagesOf(i)[m + 1].mu_set)
                       <= delta_f_max(1)
                /\ Abs(StagesOf(i)[m].temperature
                         - StagesOf(i)[m + 1].temperature) <= delta_f_max(2)

----------------------------------------------------------------------------
(* C4: in every schedule that satisfies the C8 rows for some values of z  *)
(* and q, every non-empty run has a parameter p and consecutive stages    *)
(* (k, k+1) whose difference in p has magnitude at least delta_f_min[p].  *)

HasVariation(xs, i) ==
    \E l \in 1..2, k \in 1..(num_stages - 1) :
        Abs(FactorSum(xs, i, k, l) - FactorSum(xs, i, k + 1, l))
            >= delta_f_min(l)

C4_C8RowsForceVariation ==
    (pc \in {"solved", "done"} /\ status = "Optimal") =>
        \A i \in Experiments :
            ({t \in x : t[1] = i} # {} /\ C8Rows(x, i)) => HasVariation(x, i)

----------------------------------------------------------------------------
(* C5: in every Optimal schedule no combination id appears in more than 2 *)
(* (run, stage) slots in total.                                           *)

C5_AtMostTwoSlots ==
    ReturnedOptimal => \A j \in Combos : Cardinality(SlotsHolding(j)) <= 2

\* an Optimal schedule in which a combination fills 2 slots
C5_Witness ==
    /\ ReturnedOptimal
    /\ \E j \in Combos : Cardinality(SlotsHolding(j)) = 2

----------------------------------------------------------------------------
(* C6: in every Optimal schedule, for every pair (combination j, stage    *)
(* index k), at most one run has combination j at stage k.                *)

RunsWith(j, k) ==
    {i \in DOMAIN result.experiments :
        \E m \in DOMAIN StagesOf(i) :
            StagesOf(i)[m].combination = j /\ StagesOf(i)[m].stage = k}

C6_UniqueAtStagePosition ==
    ReturnedOptimal =>
        \A j \in Combos, k \in Stages : Cardinality(RunsWith(j, k)) <= 1

\* an Optimal schedule in which a combination is held by two runs
C6_Witness ==
    /\ ReturnedOptimal
    /\ \E j \in Combos, k1 \in Stages, k2 \in Stages :
           \E i1 \in RunsWith(j, k1), i2 \in RunsWith(j, k2) : i1 # i2

----------------------------------------------------------------------------
(* C7: in every Optimal schedule, for every combination j the sum of      *)
(* STAGE_WEIGHTS[stage] over the slots holding j is at least 1 for ids 1  *)
(* to 3 and at least 2 for every other id.                                *)

WeightedUse(j) ==
    LET on == SlotsHolding(j)
    IN  Sum([p \in on |-> STAGE_WEIGHTS[StagesOf(p[1])[p[2]].stage]], on)

C7_WeightedRepetition ==
    ReturnedOptimal =>
        \A j \in Combos : WeightedUse(j) >= IF j \in 1..3 THEN 1 ELSE 2

\* an Optimal schedule of an input with an id above 3
C7_Witness ==
    /\ ReturnedOptimal
    /\ \E j \in Combos : j > 3 /\ WeightedUse(j) >= 2

----------------------------------------------------------------------------
(* C8: every schedule that minimises the objective over the schedules     *)
(* satisfying C1-C8 uses the minimum number of non-empty runs attainable  *)
(* by any schedule satisfying C1-C8.                                      *)

\* the non-empty contents of run i with at most one combination per stage
NonEmptyContents(i) ==
    {{<<i, c[k], k>> : k \in {k \in Stages : c[k] # 0}} :
        c \in [Stages -> 0..num_combinations]} \ {{}}

\* the schedules with exactly n non-empty runs, all of index from or more
RECURSIVE SchedulesUsing(_, _)
SchedulesUsing(n, from) ==
    IF n = 0 THEN {{}}
    ELSE UNION { {r \cup s : r \in NonEmptyContents(i),
                             s \in SchedulesUsing(n - 1, i + 1)} :
                 i \in from..num_experiments }

----------------------------------------------------------------------------
(* C9: in every result returned by optimize, num_experiments_used is the  *)
(* number of experiments whose stages list is non-empty and               *)
(* num_stages_used is the sum of the lengths of all the stages lists.     *)

C9_CountsMatchLists ==
    Returned =>
        /\ result.num_experiments_used = Cardinality(NonEmptyRuns)
        /\ result.num_stages_used =
               Sum([i \in DOMAIN result.experiments |-> Len(StagesOf(i))],
                   DOMAIN result.experiments)

\* a result with several runs used and several left empty
C9_Witness ==
    /\ Returned
    /\ result.num_experiments_used = 2
    /\ result.num_stages_used > 2
    /\ \E i \in DOMAIN result.experiments : Len(StagesOf(i)) = 0

----------------------------------------------------------------------------
(* C11: if no two combinations of the input differ by at least            *)
(* delta_f_min[p] in any parameter p (all rows identical, or rows closer  *)
(* than delta_f_min), the problem has no feasible schedule and optimize   *)
(* returns status Infeasible.                                             *)

\* no pair of rows differs by delta_f_min or more in any parameter
NoPairDiffers ==
    \A j1 \in Combos, j2 \in Combos, l \in 1..2 :
        Abs(factor_values[j1][l] - factor_values[j2][l]) < delta_f_min(l)

C11_DegenerateInputInfeasible ==
    (Returned /\ NoPairDiffers) => result.status = "Infeasible"

----------------------------------------------------------------------------
(* C12: for an input with a single combination and the default bounds,    *)
(* optimize returns status Optimal with exactly one non-empty experiment  *)
(* and exactly one stage used.                                            *)

C12_SingleCombinationOneStage ==
    (Returned /\ num_combinations = 1) =>
        /\ result.status = "Optimal"
        /\ result.num_experiments_used = 1
        /\ result.num_stages_used = 1

----------------------------------------------------------------------------
(* C13: for every num_stages K >= 2, optimize builds the problem and      *)
(* returns a result whose stage indices range over 1..K: building never   *)
(* reads a stage index, q selector or stage weight that exists only when  *)
(* K = 3.                                                                 *)

C13_AnyStageCountBuilds ==
    /\ (num_stages >= 2) => pc # "raised"
    /\ (Returned /\ num_stages >= 2) =>
           \A i \in DOMAIN result.experiments :
               \A m \in DOMAIN StagesOf(i) : StagesOf(i)[m].stage \in 1..num_stages

----------------------------------------------------------------------------
(* C20: for every n >= 1, get_repetition_targets(n) has exactly n         *)
(* entries, one for each id 1..n, with target 1 for ids 1 to 3 and target *)
(* 2 for every other id.  The call is the one _add_constraint_c6 makes    *)
(* while the problem is built.                                            *)

C20_TargetsHaveExactlyNEntries ==
    (pc = "built" /\ num_combinations >= 1) =>
        LET targets == get_repetition_targets(num_combinations)
        IN  /\ DOMAIN targets = 1..num_combinations
            /\ \A j \in DOMAIN targets :
                   targets[j] = IF j \in 1..3 THEN 1 ELSE 2

----------------------------------------------------------------------------
(* C18: swapping the two parameter columns of the matrix together with    *)
(* their delta_f_max and delta_f_min bounds leaves the set of feasible    *)
(* assignments unchanged: every assignment satisfies the rows built from  *)
(* the swapped input iff it satisfies the rows built from the input, so   *)
(* what the engine may return (status, runs used) is the same.            *)

\* the input of test_parameter_permutation_invariance: columns (temp, mu),
\* delta_f_max_mu = DELTA_F_MAX_TEMP and so on
SwappedInput ==
    [factor_values |->
         [j \in Combos |-> <<factor_values[j][2], factor_values[j][1]>>],
     delta_f_max_mu |-> DELTA_F_MAX_TEMP, delta_f_max_temp |-> DELTA_F_MAX_MU,
     delta_f_min_mu |-> DELTA_F_MIN_TEMP, delta_f_min_temp |-> DELTA_F_MIN_MU]

\* every content of experiment i with at most one combination per stage
\* (any other content breaks C1 under both inputs)
ContentsOfRun(i) == NonEmptyContents(i) \cup {{}}

C18_ColumnSwapKeepsFeasibleSet ==
    /\ pc = "built" =>
           \A i \in Experiments : \A r \in ContentsOfRun(i) :
               RunRowsOf(SwappedInput, r, i) <=> RunRowsOf(OptimizerInput, r, i)
    /\ pc = "solved" =>
           (FeasibleOf(SwappedInput, x) <=> FeasibleOf(OptimizerInput, x))

\* an input whose columns differ, with a run content the rows accept and
\* one they reject, and a schedule feasible for the swapped input as well
C18_Witness ==
    /\ pc = "solved"
    /\ status = "Optimal"
    /\ SwappedInput.factor_values # factor_values
    /\ FeasibleOf(SwappedInput, x)
    /\ \E r \in ContentsOfRun(1) : r # {} /\ RunRowsOf(SwappedInput, r, 1)
    /\ \E r \in ContentsOfRun(1) : ~RunRowsOf(SwappedInput, r, 1)

----------------------------------------------------------------------------
(* C16: main() returns exit code 0 when the solve status is Optimal or    *)
(* Feasible, and exit code 1 for every other status and for any raised    *)
(* exception.  (pulp.LpStatus has no value "Feasible": the statuses that  *)
(* reach the test are those the engine reports.)                          *)

C16_ExitCodeFollowsStatus ==
    /\ pc = "exited" =>
           exit_code = IF result.status \in {"Optimal", "Feasible"} THEN 0 ELSE 1
    /\ pc = "exited_except" => exit_code = 1

\* main() returned 1 for a status other than Optimal, no exception raised
C16_Witness ==
    /\ pc = "exited"
    /\ result.status = "Infeasible"
    /\ exit_code = 1

----------------------------------------------------------------------------
(* C17: two invocations of optimize on identical input yield the same     *)
(* status and, whichever optimal solution the engine returns, the same    *)
(* num_experiments_used, num_stages_used and objective value.             *)

SecondReturned == pc = "done" /\ earlier # NoResult

----------------------------------------------------------------------------
(* Reading a result of IDOEOptimizerWrapper.optimize *)

WrapperReturned == pc = "wrapper_done"
NotFeasibleStatus == result.status \notin {"Optimal", "Feasible"}

----------------------------------------------------------------------------
(* C14: whenever IDOEOptimizerWrapper.optimize ends with a status other   *)
(* than Optimal or Feasible, the result has feasible = false, runs_used = *)
(* 0, total_stages = 0, objective_value = 0.0 and an empty assignments    *)
(* map, whatever values the engine left in the variables.                 *)

C14_NotFeasibleResultIsZeroed ==
    (WrapperReturned /\ NotFeasibleStatus) =>
        /\ result.feasible = FALSE
        /\ result.runs_used = 0
        /\ result.total_stages = 0
        /\ result.objective_value = 0
        /\ DOMAIN result.assignments = {}

\* an infeasible result whose variables were left with values at 1
C14_Witness ==
    /\ WrapperReturned
    /\ result.status = "Infeasible"
    /\ x # {}
    /\ result.runs_used = 0

----------------------------------------------------------------------------
(* C15: in every result of IDOEOptimizerWrapper.optimize, the list        *)
(* infeasibility_hints is non-empty iff the status is neither Optimal nor *)
(* Feasible, for every constraint configuration.                          *)

C15_HintsIffNotFeasible ==
    WrapperReturned =>
        (Len(result.infeasibility_hints) > 0 <=> NotFeasibleStatus)

\* a result without a solution under a configuration none of whose
\* conditional hints applies
C15_Witness ==
    /\ WrapperReturned
    /\ NotFeasibleStatus
    /\ result.infeasibility_hints = <<"more runs", "more stages">>

----------------------------------------------------------------------------
(* C19: in IDOEOptimizerWrapper the C1 rows are in the problem for every  *)
(* configuration, whatever c1_enabled is, and the rows of each of C2 to   *)
(* C8 are in it only when that constraint's flag is true: an assignment   *)
(* that breaks C1 is excluded, and one that keeps C1 and every enabled    *)
(* constraint is not.                                                     *)

OnePerSlot(xs) ==
    \A i \in Runs, k \in WrapperStages : Cardinality(AtStage(xs, i, k)) <= 1

EnabledRowsHold(xs) ==
    /\ constraints.c2_enabled => RowsC2(xs)
    /\ constraints.c3_enabled => RowsC3(xs)
    /\ constraints.c4_enabled => RowsC4(xs)
    /\ constraints.c5_enabled => RowsC5(xs)
    /\ constraints.c6_enabled => RowsC6(xs)
    /\ constraints.c7_enabled => RowsC7(xs)
    /\ constraints.c8_enabled => RowsC8(xs)

\* the assignments with one combination per slot at most, and every
\* assignment of run 0
ProbeAssignments == WrapperCandidates \cup SUBSET ({0} \X WrapperCombos \X WrapperStages)

C19_OnlyEnabledRowsExclude ==
    pc = "wrapper_built" =>
        \A xs \in ProbeAssignments :
            /\ ~OnePerSlot(xs) => ~WrapperFeasible(xs)
            /\ (OnePerSlot(xs) /\ EnabledRowsHold(xs)) => WrapperFeasible(xs)

\* a problem built with c1_enabled and c2_enabled false: an assignment that
\* breaks C2 is feasible, one that breaks C1 is not
C19_Witness ==
    /\ pc = "wrapper_built"
    /\ ~constraints.c1_enabled
    /\ ~constraints.c2_enabled
    /\ \E xs \in ProbeAssignments : ~RowsC2(xs) /\ WrapperFeasible(xs)
    /\ \E xs \in ProbeAssignments : ~OnePerSlot(xs) /\ ~WrapperFeasible(xs)

----------------------------------------------------------------------------
(* streamlit_app/src/parameter_manager.py *)

\* add_parameter builds lists of at most MaxParams parameters
MaxParams == 2
\* a DataFrame has at most MaxCols columns after its index column
MaxCols == 2

\* np.prod of a list of Python ints is computed in int64 and wraps
Int64Bits == 64
ByteBits == 8
Int64Bytes == Int64Bits \div ByteBits
Byte == 2^ByteBits

\* an int64 as its bytes, least significant first (two's complement);
\* n is less than Byte
Int64(n) == [b \in 1..Int64Bytes |-> IF b = 1 THEN n ELSE 0]

\* a * b in int64: the columns of the long multiplication, then the carries
Int64Times(a, b) ==
    LET column == [k \in 1..Int64Bytes |-> Sum([m \in 1..k |-> a[m] * b[k + 1 - m]], 1..k)]
        RECURSIVE Carried(_, _)
        Carried(k, carry) ==
            IF k > Int64Bytes THEN <<>>
            ELSE <<(column[k] + carry) % Byte>>
                     \o Carried(k + 1, (column[k] + carry) \div Byte)
    IN  Carried(1, 0)

\* bytes > n as signed int64, for 0 <= n < Byte
Int64Greater(bytes, n) ==
    /\ bytes[Int64Bytes] < Byte \div 2
    /\ \/ \E b \in 2..Int64Bytes : bytes[b] # 0
       \/ bytes[1] > n

\* Parameter.__init__
Parameter(name, units, values) ==
    [name |-> name, units |-> units,
     values |-> SortSeq(values, LAMBDA a, b : a < b)]

\* the product of the lengths of ps[lo..hi]; multiplication in int64 is
\* associative, so the halves may be multiplied in any order
RECURSIVE np_prod(_, _, _)
np_prod(ps, lo, hi) ==
    IF lo = hi THEN Int64(Len(ps[lo].values))
    ELSE LET mid == (lo + hi) \div 2
         IN  Int64Times(np_prod(ps, lo, mid), np_prod(ps, mid + 1, hi))

get_num_combinations(ps) ==
    IF Len(ps) = 0 THEN Int64(0) ELSE np_prod(ps, 1, Len(ps))

\* the limit of validate
MAX_COMBINATIONS == 200

has_duplicate_values(param) ==
    Len(param.values) # Cardinality({param.values[n] : n \in DOMAIN param.values})

validate(ps) ==
    LET failing == {i \in DOMAIN ps :
                        \/ ps[i].name = ""
                        \/ Len(ps[i].values) = 0
                        \/ has_duplicate_values(ps[i])}
        names == {ps[i].name : i \in DOMAIN ps}
    IN  IF Len(ps) = 0
        THEN <<FALSE, "Please add at least one parameter">>
        ELSE IF failing # {}
        THEN LET i == CHOOSE m \in failing : \A o \in failing : m <= o
             IN  IF ps[i].name = "" THEN <<FALSE, "must have a name">>
                 ELSE IF Len(ps[i].values) = 0
                 THEN <<FALSE, "must have at least one value">>
                 ELSE <<FALSE, "has duplicate values">>
        ELSE IF Len(ps) # Cardinality(names)
        THEN <<FALSE, "Parameter names must be unique">>
        ELSE IF Int64Greater(get_num_combinations(ps), MAX_COMBINATIONS)
        THEN <<FALSE, "Too many combinations">>
        ELSE <<TRUE, "">>

\* the cells of a column: floats, strings and missing values.  The strings
\* are "29.0", "31.0" (numeric, v is their value) and "hot"; their order as
\* strings is the order of v.
Float(v) == [kind |-> "float", numeric |-> TRUE, v |-> v]
Str(v) == [kind |-> "str", numeric |-> TRUE, v |-> v]
Hot == [kind |-> "str", numeric |-> FALSE, v |-> 1000]
NaN == [kind |-> "nan", numeric |-> FALSE, v |-> 0]

\* str.lower(), and the name and units cut out of a header at "(" and ")"
Header(h) ==
    CASE h = "Combo #" -> [lower |-> "combo #", name |-> "Combo #", units |-> ""]
      [] h = "Temperature (C)" ->
             [lower |-> "temperature (c)", name |-> "Temperature", units |-> "C"]
      [] h = "pH" -> [lower |-> "ph", name |-> "pH", units |-> ""]

IndexHeaders == {"combo #", "combo", "#", "index"}

\* sorted(data_df[col].dropna().unique()) raises TypeError when floats and
\* strings are mixed
ColumnRaises(col) ==
    Cardinality({col.cells[n].kind : n \in DOMAIN col.cells} \ {"nan"}) > 1

RECURSIVE SortedCells(_)
SortedCells(S) ==
    IF S = {} THEN <<>>
    ELSE LET least == CHOOSE c \in S : \A d \in S : c.v <= d.v
         IN  <<least>> \o SortedCells(S \ {least})

ColumnValues(col) == SortedCells({col.cells[n] : n \in DOMAIN col.cells} \ {NaN})

\* the loop over data_df.columns from column n on; acc is self.parameters
RECURSIVE LoadColumns(_, _, _)
LoadColumns(cols, n, acc) ==
    IF n > Len(cols) THEN [parameters |-> acc, returned |-> <<TRUE, "">>]
    ELSE IF ColumnRaises(cols[n])
    THEN [parameters |-> acc, returned |-> <<FALSE, "Error loading CSV">>]
    ELSE LET values == ColumnValues(cols[n])
             floats == [m \in DOMAIN values |-> values[m].v]
         IN  IF Len(values) = 0
             THEN [parameters |-> acc, returned |-> <<FALSE, "has no values">>]
             ELSE IF \E m \in DOMAIN values : ~values[m].numeric
             THEN [parameters |-> acc,
                   returned |-> <<FALSE, "contains non-numeric values">>]
             ELSE LoadColumns(cols, n + 1,
                      Append(acc, Parameter(Header(cols[n].header).name,
                                            Header(cols[n].header).units,
                                            floats)))

\* a variant of load_from_dataframe that puts the old parameters back
\* when it fails
load_from_dataframe_restoring(ps, frame) ==
    LET data_df == IF Len(frame) > 0
                      /\ Header(frame[1].header).lower \in IndexHeaders
                   THEN SubSeq(frame, 2, Len(frame)) ELSE frame
        loaded == LoadColumns(data_df, 1, <<>>)
    IN  IF Len(frame) = 0
        THEN [parameters |-> ps, returned |-> <<FALSE, "Error loading CSV">>]
        ELSE IF loaded.returned[1] THEN loaded
        ELSE [parameters |-> ps, returned |-> loaded.returned]

\* load_from_dataframe: what it leaves in self.parameters, what it returns.
\* ps, the parameters before the call, are cleared first.
load_from_dataframe(ps, frame) ==
    LET data_df == IF Len(frame) > 0
                      /\ Header(frame[1].header).lower \in IndexHeaders
                   THEN SubSeq(frame, 2, Len(frame)) ELSE frame
    IN  IF Len(frame) = 0
        THEN \* df.columns[0] raises IndexError
             [parameters |-> <<>>, returned |-> <<FALSE, "Error loading CSV">>]
        ELSE LoadColumns(data_df, 1, <<>>)

\* the inputs of add_parameter
NameChoices == {"", "Temp", "pH"}
Range(n) == [v \in 1..n |-> v - 1]
ValuesChoices ==
    {<<>>, <<29, 31, 29>>, <<31, 29>>,
     Range(MAX_COMBINATIONS), Range(MAX_COMBINATIONS + 1)}

\* a manager with Int64Bits parameters of two values each
WideNames ==
    <<"p01", "p02", "p03", "p04", "p05", "p06", "p07", "p08", "p09",
       "p10", "p11", "p12", "p13", "p14", "p15", "p16", "p17", "p18",
       "p19", "p20", "p21", "p22", "p23", "p24", "p25", "p26", "p27",
       "p28", "p29", "p30", "p31", "p32", "p33", "p34", "p35", "p36",
       "p37", "p38", "p39", "p40", "p41", "p42", "p43", "p44", "p45",
       "p46", "p47", "p48", "p49", "p50", "p51", "p52", "p53", "p54",
       "p55", "p56", "p57", "p58", "p59", "p60", "p61", "p62", "p63",
       "p64">>
WideManager == [n \in 1..Int64Bits |-> Parameter(WideNames[n], "", <<0, 1>>)]

\* the DataFrames given to load_from_dataframe
IndexColumn == [header |-> "Combo #", cells |-> <<Float(1), Float(2), Float(3)>>]
ColumnChoices ==
    {[header |-> "Temperature (C)", cells |-> <<Float(31), Float(29), Float(31)>>],
     [header |-> "pH", cells |-> <<Float(7), NaN, Float(7)>>],
     [header |-> "pH", cells |-> <<NaN, NaN, NaN>>],
     [header |-> "Temperature (C)", cells |-> <<Str(29), Hot, Str(31)>>],
     [header |-> "pH", cells |-> <<Float(7), Hot, NaN>>]}
DataFrames ==
    LET data == UNION {[1..n -> ColumnChoices] : n \in 0..MaxCols}
    IN  data \cup {<<IndexColumn>> \o d : d \in data}

ManagerInit ==
    /\ x_value = NoValues
    /\ parameters \in {<<>>, WideManager}
    /\ returned = NoReturn
    /\ df = <<>>
    /\ pc = "manager"
    /\ factor_values = <<>>
    /\ num_stages = NUM_STAGES
    /\ x = {}
    /\ status = "Not Solved"
    /\ result = NoResult
    /\ earlier = NoResult
    /\ args = NoArgs
    /\ exit_code = NoExit
    /\ saved = NoDict
    /\ NoWrapper
    /\ NoApp

manager_others == <<factor_values, num_stages, pc, x, status, result, earlier,
                    main_vars, wrapper_vars, app_vars, solver_vars>>

add_parameter ==
    /\ Len(parameters) < MaxParams
    /\ \E name \in NameChoices, values \in ValuesChoices :
           parameters' = Append(parameters, Parameter(name, "", values))
    /\ returned' = NoReturn
    /\ UNCHANGED df
    /\ UNCHANGED manager_others

\* the first and the last index, and the two indices next to the range
remove_parameter ==
    /\ \E index \in {-1, 0, Len(parameters) - 1, Len(parameters)} :
           parameters' =
               IF 0 <= index /\ index < Len(parameters)
               THEN [n \in 1..(Len(parameters) - 1) |->
                        IF n <= index THEN parameters[n] ELSE parameters[n + 1]]
               ELSE parameters
    /\ returned' = NoReturn
    /\ UNCHANGED df
    /\ UNCHANGED manager_others

clear ==
    /\ parameters' = <<>>
    /\ returned' = NoReturn
    /\ UNCHANGED df
    /\ UNCHANGED manager_others

Validate ==
    /\ returned' = validate(parameters)
    /\ UNCHANGED <<parameters, df>>
    /\ UNCHANGED manager_others

LoadFromDataframe ==
    /\ \E given \in DataFrames :
           \E loaded \in {load_from_dataframe(parameters, given)} :
               /\ df' = given
               /\ parameters' = loaded.parameters
               /\ returned' = loaded.returned
    /\ UNCHANGED manager_others

ManagerNext == add_parameter \/ remove_parameter \/ clear \/ Validate

ManagerSpec == ManagerInit /\ [][ManagerNext]_vars

\* load_from_dataframe called on a manager that add_parameter has filled
FilledManagers ==
    LET choices == {Parameter(name, "", values) :
                        name \in NameChoices,
                        values \in {<<>>, <<29, 31, 29>>, <<31, 29>>}}
    IN  UNION {[1..n -> choices] : n \in 0..MaxParams}

LoadInit ==
    /\ x_value = NoValues
    /\ parameters \in FilledManagers
    /\ returned = NoReturn
    /\ df = <<>>
    /\ pc = "manager"
    /\ factor_values = <<>>
    /\ num_stages = NUM_STAGES
    /\ x = {}
    /\ status = "Not Solved"
    /\ result = NoResult
    /\ earlier = NoResult
    /\ args = NoArgs
    /\ exit_code = NoExit
    /\ saved = NoDict
    /\ NoWrapper
    /\ NoApp

LoadNext == LoadFromDataframe

LoadSpec == LoadInit /\ [][LoadNext]_vars

----------------------------------------------------------------------------
(* C21: ParameterManager.validate returns (True, "") exactly when there   *)
(* is at least one parameter, every parameter has a non-empty name and at *)
(* least one value, no parameter has duplicate values, the names are      *)
(* pairwise distinct and the number of combinations is at most 200; in    *)
(* every other state it returns False with a non-empty message.           *)

\* the number of combinations of ps[lo..hi], or cap if it is larger
RECURSIVE CombinationsUpTo(_, _, _, _)
CombinationsUpTo(ps, lo, hi, cap) ==
    IF lo = hi THEN IF Len(ps[lo].values) > cap THEN cap ELSE Len(ps[lo].values)
    ELSE LET mid == (lo + hi) \div 2
             n == CombinationsUpTo(ps, lo, mid, cap)
                      * CombinationsUpTo(ps, mid + 1, hi, cap)
         IN  IF n > cap THEN cap ELSE n

ValidConfiguration(ps) ==
    /\ Len(ps) >= 1
    /\ \A i \in DOMAIN ps :
           /\ ps[i].name # ""
           /\ Len(ps[i].values) >= 1
           /\ \A m, n \in DOMAIN ps[i].values :
                  m # n => ps[i].values[m] # ps[i].values[n]
    /\ \A i, o \in DOMAIN ps : i # o => ps[i].name # ps[o].name
    /\ CombinationsUpTo(ps, 1, Len(ps), MAX_COMBINATIONS + 1) <= MAX_COMBINATIONS

C21_ValidateAcceptsExactlyValid ==
    returned # NoReturn =>
        /\ returned = <<TRUE, "">> <=> ValidConfiguration(parameters)
        /\ ~ValidConfiguration(parameters) =>
               (returned[1] = FALSE /\ returned[2] # "")

----------------------------------------------------------------------------
(* C30: when ParameterManager.load_from_dataframe returns failure, the    *)
(* parameters held before the call are not put back: the manager holds    *)
(* exactly the parameters parsed from the columns that precede the        *)
(* failing column, none if the first data column fails.                   *)

\* the columns after the index column, if the first column is one
DataColumns ==
    IF Len(df) > 0 /\ df[1].header = "Combo #" THEN SubSeq(df, 2, Len(df)) ELSE df

\* a column from which no parameter can be made
ColumnFails(col) ==
    LET cells == {col.cells[n] : n \in DOMAIN col.cells}
    IN  \/ cells \subseteq {NaN}
        \/ Hot \in cells

\* the parameters of the columns before the first failing one
PrecedingParsed ==
    LET cols == DataColumns
        failing == {n \in DOMAIN cols : ColumnFails(cols[n])}
        first == IF failing = {} THEN Len(cols) + 1
                 ELSE CHOOSE n \in failing : \A m \in failing : n <= m
    IN  [n \in 1..(first - 1) |->
            [name |-> IF cols[n].header = "pH" THEN "pH" ELSE "Temperature",
             units |-> IF cols[n].header = "pH" THEN "" ELSE "C",
             values |-> IF cols[n].header = "pH" THEN <<7>> ELSE <<29, 31>>]]

C30_FailedLoadKeepsParsedPrefix ==
    (returned # NoReturn /\ returned[1] = FALSE) => parameters = PrecedingParsed

\* a failed load that left one parsed parameter in the manager
C30_Witness ==
    /\ returned # NoReturn
    /\ returned[1] = FALSE
    /\ Len(DataColumns) = 2
    /\ Len(parameters) = 1
    /\ parameters[1].name = "Temperature"

----------------------------------------------------------------------------
(* streamlit_app/app.py: one action is one run of the script, started by  *)
(* a click; the script ends with the results section, which renders the   *)
(* stored result when show_results holds and a result is stored.          *)

\* create_example_parameters()
ExampleParameters ==
    <<Parameter("Temperature", "C", <<290000, 310000, 330000>>),
      Parameter("mu_set", "1/h", <<1100, 1225, 1350, 1475, 1600>>)>>

\* the text of the "Values (comma-separated)" input and what
\* [float(v.strip()) for v in text.split(',')] makes of it; "hot" raises
\* ValueError
ValuesTexts == {"", "29, 31", "7", "hot"}
ParsedValues(text) ==
    CASE text = "29, 31" -> <<29, 31>>
      [] text = "7" -> <<7>>

\* what the planner returns to the script
PlannerResults ==
    {[status |-> "Optimal", feasible |-> TRUE],
     [status |-> "Infeasible", feasible |-> FALSE]}

AppInit ==
    /\ x_value = NoValues
    /\ parameters = <<>>
    /\ optimization_result = NoResult
    /\ show_results = FALSE
    /\ planned_for = <<>>
    /\ returned = NoReturn
    /\ df = <<>>
    /\ pc = "app"
    /\ factor_values = <<>>
    /\ num_stages = NUM_STAGES
    /\ x = {}
    /\ status = "Not Solved"
    /\ result = NoResult
    /\ earlier = NoResult
    /\ args = NoArgs
    /\ exit_code = NoExit
    /\ saved = NoDict
    /\ NoWrapper

app_others == <<factor_values, num_stages, pc, x, status, result, earlier,
                main_vars, wrapper_vars, returned, df, solver_vars>>

\* "New Plan"
reset_app ==
    /\ parameters' = <<>>
    /\ optimization_result' = NoResult
    /\ show_results' = FALSE
    /\ UNCHANGED planned_for
    /\ UNCHANGED app_others

\* "Load Example"
load_example ==
    /\ parameters' = ExampleParameters
    /\ optimization_result' = NoResult
    /\ show_results' = FALSE
    /\ UNCHANGED planned_for
    /\ UNCHANGED app_others

\* the remove button of the parameter at idx
RemoveParameterButton ==
    /\ \E idx \in 0..(Len(parameters) - 1) :
           parameters' = [n \in 1..(Len(parameters) - 1) |->
                             IF n <= idx THEN parameters[n] ELSE parameters[n + 1]]
    /\ UNCHANGED <<optimization_result, show_results, planned_for>>
    /\ UNCHANGED app_others

\* "Add Parameter"
AddParameterButton ==
    /\ Len(parameters) < MaxParams
    /\ \E new_param_name \in NameChoices, new_param_values \in ValuesTexts :
           IF new_param_name # "" /\ new_param_values # ""
                  /\ new_param_values # "hot"
           THEN parameters' = Append(parameters,
                    Parameter(new_param_name, "", ParsedValues(new_param_values)))
           ELSE UNCHANGED parameters
    /\ UNCHANGED <<optimization_result, show_results, planned_for>>
    /\ UNCHANGED app_others

\* "Run Planner", shown when validate() accepts the parameters
RunPlannerButton ==
    /\ validate(parameters)[1]
    /\ optimization_result' \in PlannerResults
    /\ show_results' = TRUE
    /\ planned_for' = parameters
    /\ UNCHANGED parameters
    /\ UNCHANGED app_others

AppNext ==
    \/ reset_app
    \/ load_example
    \/ RemoveParameterButton
    \/ AddParameterButton
    \/ RunPlannerButton

AppSpec == AppInit /\ [][AppNext]_vars

\* the condition of the results section
ResultsShown == show_results /\ optimization_result # NoResult

----------------------------------------------------------------------------
(* C26: whenever the app shows results (show_results is true and an       *)
(* optimization_result is stored), the stored result was computed from    *)
(* the current parameter set: every action that changes the parameters    *)
(* clears the result before results are rendered again.                   *)

C26_ShownResultIsCurrent == ResultsShown => planned_for = parameters

----------------------------------------------------------------------------
(* C22: OptimizationResult.to_dict lists every experiment of the result   *)
(* in index order, the empty ones included, and for each experiment every *)
(* stage in order with its stage number and combination id, so the set of *)
(* (experiment_id, stage, combination) triples rebuilt from the           *)
(* dictionary equals the set held by the result.                          *)

\* main() has returned after save_results wrote the dictionary
Saved == pc = "exited" /\ args.output # "None"

\* the triples read back from a list of experiments
TriplesOf(experiments) ==
    UNION {{<<experiments[n].experiment_id,
              experiments[n].stages[m].stage,
              experiments[n].stages[m].combination>> :
                m \in DOMAIN experiments[n].stages} : n \in DOMAIN experiments}

C22_DictListsEveryExperiment ==
    Saved =>
        /\ Len(saved.experiments) = num_experiments
        /\ \A n \in DOMAIN saved.experiments :
               /\ saved.experiments[n].experiment_id = n
               /\ Len(saved.experiments[n].stages) = Len(StagesOf(n))
               /\ \A m \in DOMAIN saved.experiments[n].stages :
                      /\ saved.experiments[n].stages[m].stage = StagesOf(n)[m].stage
                      /\ saved.experiments[n].stages[m].combination
                             = StagesOf(n)[m].combination
        /\ TriplesOf(saved.experiments) = TriplesOf(result.experiments)
        /\ TriplesOf(saved.experiments) = {<<t[1], t[3], t[2]>> : t \in x}

\* a saved result with an experiment of several stages and an empty one
C22_Witness ==
    /\ Saved
    /\ \E n \in DOMAIN saved.experiments : Len(saved.experiments[n].stages) >= 2
    /\ \E n \in DOMAIN result.experiments : Len(StagesOf(n)) = 0

----------------------------------------------------------------------------
(* _extract_results on solver values that need not be exactly 0 or 1.     *)
(* The values are in units of 1e-7.                                       *)

ValueOne == 10^7

\* 0, 1e-7, 0.5, 1 - 1e-7 and 1
ValueChoices == {0, 1, ValueOne \div 2, ValueOne - 1, ValueOne}

\* "pulp.value(self.x[i][j][k]) == 1"
ExactOnes(values) == {t \in DOMAIN values : values[t] = ValueOne}

\* the variables of experiment 1 take any of the values, the others are 0
ExtractInit ==
    /\ factor_values = SubSeq(FACTOR_VALUES, 1, 1)
    /\ num_stages = NUM_STAGES
    /\ x_value \in
           {[t \in Experiments \X Combos \X Stages |->
                IF t[1] = 1 THEN f[t] ELSE 0] :
                    f \in [{1} \X Combos \X Stages -> ValueChoices]}
    /\ pc = "solved"
    /\ x = {}
    /\ status = "Optimal"
    /\ result = NoResult
    /\ earlier = NoResult
    /\ args = NoArgs
    /\ exit_code = NoExit
    /\ saved = NoDict
    /\ NoWrapper
    /\ NoManager
    /\ NoApp

\* _extract_results: no statement of it raises on a value
ExtractFromValues ==
    /\ pc = "solved"
    /\ result' = ExtractedResult(ExactOnes(x_value), status)
    /\ pc' = "done"
    /\ UNCHANGED <<factor_values, num_stages, x, status, earlier,
                   main_vars, wrapper_vars, manager_vars, app_vars, solver_vars>>

ExtractNext == ExtractFromValues

ExtractSpec == ExtractInit /\ [][ExtractNext]_vars

----------------------------------------------------------------------------
(* C23: when a schedule is extracted, a solver value of x[i,j,k] within   *)
(* 1e-6 of 1 is an assignment, a value within 1e-6 of 0 is none, and any  *)
(* other value makes the extraction fail with an error.                   *)

Tolerance == ValueOne \div 10^6
NearOne(v) == Abs(v - ValueOne) <= Tolerance
NearZero(v) == Abs(v) <= Tolerance

C23_ExtractionRoundsOrFails ==
    pc \in {"done", "raised"} =>
        IF \E t \in DOMAIN x_value : ~NearOne(x_value[t]) /\ ~NearZero(x_value[t])
        THEN pc = "raised"
        ELSE /\ pc = "done"
             /\ TriplesOf(result.experiments)
                    = {<<t[1], t[3], t[2]>> :
                          t \in {u \in DOMAIN x_value : NearOne(x_value[u])}}

----------------------------------------------------------------------------
(* C24: in the C8 Big-M rows of a run i and parameter p with every q      *)
(* selector of (i, p) equal to 0, z[i,p] = 0 forces the transition        *)
(* difference d_k >= delta_min[p], and z[i,p] = 1 instead forces          *)
(* d_k <= -delta_min[p]: z selects the sign of the required variation.    *)

\* d_k of run content r: the value at stage k minus the value at stage k+1
TransitionDifference(r, i, k, l) == FactorSum(r, i, k, l) - FactorSum(r, i, k + 1, l)

C24_ZSelectsTheSign ==
    pc = "built" =>
        \A i \in Experiments : \A r \in ContentsOfRun(i) : \A l \in 1..2 :
            /\ C8RowsAt(r, i, l, 1, 0, 0) =>
                   \A k \in 1..(num_stages - 1) :
                       TransitionDifference(r, i, k, l) <= -delta_f_min(l)
            /\ C8RowsAt(r, i, l, 0, 0, 0) =>
                   TransitionDifference(r, i, 1, l) >= delta_f_min(l)

----------------------------------------------------------------------------
(* C25: with the wrapper's weights, linear in the run index, every        *)
(* optimal schedule uses the least number of non-empty runs attainable    *)
(* under the enabled constraints, for every constraint configuration.     *)

UsedRuns(xs) == {t[1] : t \in xs}

\* the schedules the enabled constraints allow
AttainableSchedules ==
    {xs \in WrapperCandidates : OnePerSlot(xs) /\ EnabledRowsHold(xs)}

----------------------------------------------------------------------------
(* C27: in every feasible result of IDOEOptimizerWrapper.optimize, the    *)
(* entry at position m of assignments[i] is the combination assigned to   *)
(* stage m of run i: an unassigned stage never shifts later stages to     *)
(* earlier positions of the list, for every constraint configuration.     *)

C27_PositionIsStage ==
    (WrapperReturned /\ result.feasible) =>
        \A i \in DOMAIN result.assignments :
            \A m \in DOMAIN result.assignments[i] :
                <<i, result.assignments[i][m], m - 1>> \in x

----------------------------------------------------------------------------
(* C28: in every optimal schedule of IDOEOptimizer the non-empty runs are *)
(* exactly runs 1..num_experiments_used: no empty run has a lower index   *)
(* than a non-empty run.                                                  *)

\* the variables of run i at value 1 in the returned solution
AssignedInRun(i) == {t \in x : t[1] = i}

C28_UsedRunsComeFirst ==
    ReturnedOptimal =>
        /\ NonEmptyRuns = 1..result.num_experiments_used
        /\ \A i \in Experiments, o \in Experiments :
               (i < o /\ AssignedInRun(o) # {}) => AssignedInRun(i) # {}

\* an optimal schedule of two runs, with the later runs left empty
C28_Witness ==
    /\ ReturnedOptimal
    /\ result.num_experiments_used = 2
    /\ AssignedInRun(1) # {} /\ AssignedInRun(2) # {}
    /\ \A i \in Experiments : i > 2 => AssignedInRun(i) = {}

----------------------------------------------------------------------------
(* C29: if every combination has some parameter p with |c_jp| >           *)
(* delta_f_max[p], then in every schedule satisfying the C7 rows of       *)
(* IDOEOptimizer each run is either empty or has all K stages assigned,   *)
(* because an unassigned stage contributes the value 0 to the transition  *)
(* difference.                                                            *)

\* every combination exceeds delta_f_max in some parameter
EveryCombinationExceeds ==
    \A j \in Combos :
        \E l \in 1..num_factors : Abs(factor_values[j][l]) > delta_f_max(l)

\* the stages of run i that hold a combination under r
AssignedStages(r, i) == {k \in Stages : OfStage(r, i, k) # {}}

====
